---- MODULE Spec2Model ----
(***************************************************************************)
(* Model of python-backend/server.py: the MLX local-inference sidecar.     *)
(*                                                                         *)
(* The three module globals (model, tokenizer, current_model_path) are the *)
(* state; every FastAPI handler is one action.  The handlers are           *)
(* `async def` bodies that contain no `await`, so the event loop runs each *)
(* of them from its first statement to its return (or raise) without       *)
(* interleaving another handler: one handler call is one atomic step.      *)
(***************************************************************************)
EXTENDS Integers, Sequences, FiniteSets, TLC

VARIABLES
    model,               \* server.py:35  global model handle, or None
    tokenizer,           \* server.py:36  global tokenizer handle, or None
    current_model_path,  \* server.py:37  global recorded source path, or NoneStr
    serving,             \* TRUE between lifespan startup and shutdown
    mlx_lm,              \* whether `from mlx_lm import ...` succeeds in this process
    nloads,              \* number of objects mlx_lm.load has returned (object identity)
    req,                 \* the request handled last (operation and its inputs)
    pre,                 \* the three globals as they were when that request arrived
    resp,                \* the HTTP response to that request
    steps,               \* the external calls that handler made, in order
    logged,              \* the log records that handler emitted at warning level or above
    e2e,                 \* progress of the load/status/generate/unload/status scenario
    seen_errors,         \* the categories of error the requests so far have met
    tasks,               \* event loop: the handler coroutines of the requests accepted
    current,             \* event loop: the task that is running, 0 when the loop is idle
    heap,                \* event loop: the model/tokenizer objects not yet reclaimed
    cleaning,            \* server.py:209-237  `response` after each cleaning statement so far
    gen                  \* server.py:140-249  a generate_text call, statement by statement

vars == <<model, tokenizer, current_model_path, serving, mlx_lm, nloads,
          req, pre, resp, steps, logged, e2e, seen_errors, tasks, current, heap,
          cleaning, gen>>

----------------------------------------------------------------------------
(* Bounds of the model.                                                    *)

\* mlx_lm.load returns at most this many model/tokenizer pairs in one run.
MaxLoads == 3

----------------------------------------------------------------------------
(* Values.                                                                 *)

\* Python's None, for the object-valued globals.
None == [kind |-> "None"]

\* Python's None, for Optional[str] fields.
NoneStr == "None"

\* The model sources a caller may name.
Paths == {"mlx-community/Qwen3-0.6B-4bit", "/nonexistent/path/to/model"}

\* The object mlx_lm.load(p) returns as its first / second component.
ModelHandle(p, id) == [kind |-> "model", path |-> p, id |-> id]
TokenizerHandle(p, id) == [kind |-> "tokenizer", path |-> p, id |-> id]

\* Response bodies: the pydantic models of server.py.
StatusResponse(st, loaded, path) ==
    [status |-> st, model_loaded |-> loaded, model_path |-> path]

LoadResponse(st, path) == [status |-> st, model_path |-> path]

GenerateResponse(text, n) == [response |-> text, tokens_generated |-> n]

\* fastapi.HTTPException(status_code, detail): detail is a prefix and, where the
\* handler formats one in, the str() of the exception it caught.
HTTPException(code, prefix, cause) ==
    [code |-> code, body |-> [detail |-> prefix, cause |-> cause]]

OK(body) == [code |-> 200, body |-> body]

----------------------------------------------------------------------------
(* Text.  A Python str is modelled as the sequence of its characters, so   *)
(* that find, count, split, strip and re.sub act on it as they do in       *)
(* Python.                                                                 *)

ThinkOpen == <<"<", "t", "h", "i", "n", "k", ">">>
ThinkClose == <<"<", "/", "t", "h", "i", "n", "k", ">">>
OutputMarker == <<"O", "u", "t", "p", "u", "t", ":">>
TextMarker == <<"T", "e", "x", "t", ":">>
ParagraphBreak == <<"\n", "\n">>

\* The characters str.strip() removes (those of them the model's texts use).
Whitespace == {" ", "\n", "\t", "\r"}

SetMin(S) == CHOOSE x \in S : \A y \in S : x <= y
SetMax(S) == CHOOSE x \in S : \A y \in S : x >= y

\* s[a:b], with Python's 0-based half-open indices, 0 <= a.
Slice(s, a, b) ==
    LET hi == IF b > Len(s) THEN Len(s) ELSE b
    IN  IF a >= hi THEN <<>> ELSE SubSeq(s, a + 1, hi)

\* sub occurs in s at 0-based index i.
OccursAt(s, sub, i) ==
    /\ i >= 0
    /\ i + Len(sub) <= Len(s)
    /\ SubSeq(s, i + 1, i + Len(sub)) = sub

\* s.find(sub, start): the lowest index >= start where sub occurs, or -1.
Find(s, sub, start) ==
    LET hits == {i \in start..(Len(s) - Len(sub)) : OccursAt(s, sub, i)}
    IN  IF hits = {} THEN -1 ELSE SetMin(hits)

\* sub in s
Contains(s, sub) == Find(s, sub, 0) # -1

\* s.count(sub): the number of non-overlapping occurrences, scanning left to right.
RECURSIVE CountFrom(_, _, _)
CountFrom(s, sub, pos) ==
    LET i == Find(s, sub, pos)
    IN  IF i = -1 THEN 0 ELSE 1 + CountFrom(s, sub, i + Len(sub))

Count(s, sub) == CountFrom(s, sub, 0)

\* s.split(sep): the parts between the non-overlapping occurrences of sep.
RECURSIVE SplitFrom(_, _, _)
SplitFrom(s, sep, pos) ==
    LET i == Find(s, sep, pos)
    IN  IF i = -1
        THEN <<Slice(s, pos, Len(s))>>
        ELSE <<Slice(s, pos, i)>> \o SplitFrom(s, sep, i + Len(sep))

Split(s, sep) == SplitFrom(s, sep, 0)

\* s.lstrip() in its place: only the leading whitespace goes.
Strip_LeadingOnly(s) ==
    LET keep == {i \in 1..Len(s) : s[i] \notin Whitespace}
    IN  IF keep = {} THEN <<>> ELSE SubSeq(s, SetMin(keep), Len(s))

\* s.strip(): s without its leading and trailing whitespace.
Strip(s) ==
    LET keep == {i \in 1..Len(s) : s[i] \notin Whitespace}
    IN  IF keep = {} THEN <<>> ELSE SubSeq(s, SetMin(keep), SetMax(keep))

\* re.sub(r'<think>.*?</think>', '', s, flags=re.DOTALL): scanning from pos, every
\* leftmost <think> that has a </think> after it is removed up to and including the
\* nearest such </think>; the scan resumes right after it.
RECURSIVE RemoveThinkFrom(_, _)
RemoveThinkFrom(s, pos) ==
    LET i == Find(s, ThinkOpen, pos)
        j == IF i = -1 THEN -1 ELSE Find(s, ThinkClose, i + Len(ThinkOpen))
    IN  IF j = -1
        THEN Slice(s, pos, Len(s))
        ELSE Slice(s, pos, i) \o RemoveThinkFrom(s, j + Len(ThinkClose))

\* The pattern with a greedy `.*`: one match, from the first <think> to the last
\* </think> after it.
RemoveThink_Greedy(s) ==
    LET i == Find(s, ThinkOpen, 0)
        closes == {j \in 0..Len(s) : j >= i + Len(ThinkOpen) /\ OccursAt(s, ThinkClose, j)}
    IN  IF i = -1 \/ closes = {}
        THEN s
        ELSE Slice(s, 0, i) \o Slice(s, SetMax(closes) + Len(ThinkClose), Len(s))

RemoveThink(s) == RemoveThinkFrom(s, 0)

\* The loop without its `break`: the last non-blank part wins.
ExtractFirstOutput_TakesLast(s) ==
    IF Contains(s, OutputMarker)
    THEN LET parts == Split(s, OutputMarker)
             full == {k \in 2..Len(parts) : Strip(parts[k]) # <<>>}
         IN  IF full = {}
             THEN s
             ELSE Split(Strip(parts[SetMax(full)]), ParagraphBreak)[1]
    ELSE s

\* server.py:214-222: keep the first paragraph of the first non-blank part that
\* follows an "Output:" marker; no marker, or only blank parts after it, changes
\* nothing.
ExtractFirstOutput(s) ==
    IF Contains(s, OutputMarker)
    THEN LET parts == Split(s, OutputMarker)
             full == {k \in 2..Len(parts) : Strip(parts[k]) # <<>>}
         IN  IF full = {}
             THEN s
             ELSE Split(Strip(parts[SetMin(full)]), ParagraphBreak)[1]
    ELSE s

\* The test written as `> 0`: a single "Text:" already cuts.
CutTextLoop_OnAnyMarker(s) ==
    IF Count(s, TextMarker) > 0
    THEN LET first_text_idx == Find(s, TextMarker, 0)
         IN  IF first_text_idx > 0
             THEN Strip(Slice(s, 0, first_text_idx))
             ELSE IF first_text_idx = 0
                  THEN LET second_text_idx == Find(s, TextMarker, 5)
                       IN  IF second_text_idx > 0
                           THEN Strip(Slice(s, 0, second_text_idx))
                           ELSE s
                  ELSE s
    ELSE s

\* The first branch written as `>= 0`: a leading "Text:" cuts everything.
CutTextLoop_AtFirstAlways(s) ==
    IF Count(s, TextMarker) > 1
    THEN LET first_text_idx == Find(s, TextMarker, 0)
         IN  IF first_text_idx >= 0
             THEN Strip(Slice(s, 0, first_text_idx))
             ELSE s
    ELSE s

\* server.py:224-234: with more than one "Text:", cut at the first one, or at the
\* second when the first is at index 0.
CutTextLoop(s) ==
    IF Count(s, TextMarker) > 1
    THEN LET first_text_idx == Find(s, TextMarker, 0)
         IN  IF first_text_idx > 0
             THEN Strip(Slice(s, 0, first_text_idx))
             ELSE IF first_text_idx = 0
                  THEN LET second_text_idx == Find(s, TextMarker, 5)
                       IN  IF second_text_idx > 0
                           THEN Strip(Slice(s, 0, second_text_idx))
                           ELSE s
                  ELSE s
    ELSE s

\* None where a str is expected: told from every str by its one element, which is
\* no character.
Absent == <<NoneStr>>

\* `if response:` (server.py:210, 242): None and the empty string are falsy.
Truthy(response) == response # Absent /\ response # <<>>

\* server.py:209-237: the cleaning generate_text applies to the decoder's output;
\* an empty (falsy) output is left as it is.
CleanResponse(response) ==
    IF Truthy(response)
    THEN Strip(CutTextLoop(ExtractFirstOutput(RemoveThink(response))))
    ELSE response

\* tokenizer.encode(text): the tokenizer is the external mlx_lm/transformers one;
\* it is modelled as a character-level encoder (one token per character).
Encode(tok, text) == text

----------------------------------------------------------------------------
(* The handlers.  Each handler body is an operator from the globals it     *)
(* finds (g), its request and the outcomes of the external calls it makes  *)
(* to the record                                                           *)
(*   [g: the globals it leaves, resp: its HTTP response,                   *)
(*    steps: the external calls it made, logged: its warning/error logs].  *)

Globals ==
    [model |-> model, tokenizer |-> tokenizer,
     current_model_path |-> current_model_path]

EmptyGlobals ==
    [model |-> None, tokenizer |-> None, current_model_path |-> NoneStr]

Result(g, r, st, lg) == [g |-> g, resp |-> r, steps |-> st, logged |-> lg]

\* server.py:94-101
StatusView_ByPath(g) ==
    StatusResponse("running", g.current_model_path # NoneStr, g.current_model_path)

StatusView(g) ==
    StatusResponse("running", g.model # None, g.current_model_path)

get_status_body(g) == Result(g, OK(StatusView(g)), <<>>, <<>>)

\* server.py:121-126: "Unload existing model if any".  current_model_path is
\* not assigned here.
ReleasePrevious_ModelOnly(g) ==
    IF g.model # None THEN [g EXCEPT !.model = None] ELSE g

ReleasePrevious_Skip(g) == g

ReleasePrevious(g) ==
    IF g.model # None
    THEN [g EXCEPT !.model = None, !.tokenizer = None]
    ELSE g

ReleaseSteps(g) ==
    IF g.model # None THEN <<"release", "gc.collect">> ELSE <<>>

\* server.py:129-130: model, tokenizer = load(path); current_model_path = path
StoreLoaded_PathNotRecorded(g, p, id) ==
    [g EXCEPT !.model = ModelHandle(p, id), !.tokenizer = TokenizerHandle(p, id)]

StoreLoaded(g, p, id) ==
    [model |-> ModelHandle(p, id), tokenizer |-> TokenizerHandle(p, id),
     current_model_path |-> p]

\* server.py:133
Loaded_EchoesOldPath(g, p) ==
    OK(LoadResponse("loaded", IF g.current_model_path # NoneStr
                              THEN g.current_model_path ELSE p))

Loaded(g, p) == OK(LoadResponse("loaded", p))

\* server.py:135-137
LoadFailed_Escapes(cause) ==
    [code |-> 0, body |-> [detail |-> "Failed to load model: ", cause |-> cause]]

LoadFailed(cause) == HTTPException(500, "Failed to load model: ", cause)

\* What the external calls of load_model can do: the import of mlx_lm fails in a
\* process without it; otherwise load(path) returns a pair or raises.
LoadOutcomes == IF mlx_lm THEN {"ok", "FileNotFoundError"} ELSE {"ModuleNotFoundError"}

\* server.py:113-137
load_model_body(g, p, outcome, id) ==
    IF outcome = "ModuleNotFoundError"
    THEN Result(g, LoadFailed(outcome), <<"import mlx_lm">>,
                <<"ERROR Failed to load model">>)
    ELSE LET g1 == ReleasePrevious(g)
             st == <<"import mlx_lm">> \o ReleaseSteps(g) \o <<"mlx_lm.load">>
         IN  IF outcome = "ok"
             THEN Result(StoreLoaded(g1, p, id), Loaded(g, p), st, <<>>)
             ELSE Result(g1, LoadFailed(outcome), st,
                         <<"ERROR Failed to load model">>)

\* server.py:257-262
NothingToUnload_AsError == HTTPException(400, "No model loaded. Call /load first.", NoneStr)

NothingToUnload == OK(StatusResponse("no_model_loaded", FALSE, NoneStr))

\* server.py:277-281
Unloaded == OK(StatusResponse("unloaded", FALSE, NoneStr))

\* What mx.metal.clear_cache() (or the import of mlx.core before it) can do.
CacheOutcomes == {"ok", "raises"}

\* server.py:264-281
UnloadLoaded_CacheFailureFails(g, cache) ==
    IF cache = "ok"
    THEN Result(EmptyGlobals, Unloaded,
                <<"release", "gc.collect", "mx.metal.clear_cache">>, <<>>)
    ELSE Result(EmptyGlobals, HTTPException(500, "Failed to clear MLX Metal cache: ", cache),
                <<"release", "gc.collect", "mx.metal.clear_cache">>, <<>>)

UnloadLoaded(g, cache) ==
    Result(EmptyGlobals, Unloaded,
           <<"release", "gc.collect", "mx.metal.clear_cache">>,
           IF cache = "ok" THEN <<>> ELSE <<"WARNING Failed to clear MLX Metal cache">>)

\* server.py:252-281
unload_model_body(g, cache) ==
    IF g.model = None
    THEN Result(g, NothingToUnload, <<>>, <<>>)
    ELSE UnloadLoaded(g, cache)

----------------------------------------------------------------------------
(* generate_text.                                                          *)

\* The prompts callers send, and the raw outputs the decoder may return.
Prompts == {"Translate: Hello world"}

RawOutputs ==
    { <<>>,
      <<"H", "i">>,
      <<" ", "\n">>,
      OutputMarker \o <<" ", "H", "i", "\n", "\n">> \o OutputMarker \o <<" ", "W">>,
      ThinkOpen \o <<"X", "\n">> \o ThinkClose \o <<"Y">>,
      <<"H", "i", " ">> \o TextMarker \o <<" ", "r", " ">> \o TextMarker \o <<" ", "a">> }

\* What the external calls of generate_text can do.
\*   template: the call of apply_chat_template with enable_thinking=False returns,
\*             raises TypeError (the toggle is unsupported) or raises something else;
\*   fallback: the call without the toggle, made only after a TypeError, returns
\*             or raises;
\*   fault:    which of the later calls raises, if any;
\*   raw:      the text generate() returns.
GenerateFaults ==
    {"none", "make_sampler", "make_logits_processors", "generate", "tokenizer.encode"}

GenerateEnvs ==
    {env \in [template : {"ok", "TypeError", "raises"}, fallback : {"ok", "raises"},
              fault : GenerateFaults, raw : RawOutputs] :
        env.template # "TypeError" => env.fallback = "ok"}

\* The calls that follow chat formatting, in the order of server.py:184-242.
Pipeline ==
    <<"make_sampler", "make_logits_processors", "generate", "tokenizer.encode">>

PipelineIndex(f) == CHOOSE k \in 1..Len(Pipeline) : Pipeline[k] = f

\* server.py:150
NoModelLoaded(g) == g.model = None \/ g.tokenizer = None

\* server.py:151
NoModel_CaughtAsFailure ==
    HTTPException(500, "Generation failed: ", "400: No model loaded. Call /load first.")

NoModel == HTTPException(400, "No model loaded. Call /load first.", NoneStr)

\* server.py:247-249
GenerationFailed_AsPrecondition(cause) ==
    HTTPException(400, "Generation failed: ", cause)

GenerationFailed(cause) == HTTPException(500, "Generation failed: ", cause)

\* server.py:148: generate_text declares model and tokenizer global and assigns
\* neither, on any path.
GlobalsAfterGenerate_DropsOnFailure(g, failed) ==
    IF failed THEN EmptyGlobals ELSE g

GlobalsAfterGenerate(g, failed) == g

\* server.py:163-179: the formatting calls made, and whether formatting raises out
\* of the inner try (anything but TypeError from the first call, anything from the
\* second).
FormatSteps(env) ==
    <<"apply_chat_template(enable_thinking=False)">>
        \o (IF env.template = "TypeError" THEN <<"apply_chat_template">> ELSE <<>>)

FormatRaises(env) ==
    \/ env.template = "raises"
    \/ env.template = "TypeError" /\ env.fallback = "raises"

\* server.py:242
TokensGenerated(tok, response) ==
    IF Truthy(response) THEN Len(Encode(tok, response)) ELSE 0

\* server.py:140-249
generate_text_body(g, env) ==
    IF NoModelLoaded(g)
    THEN Result(g, NoModel, <<>>, <<>>)
    ELSE LET response == CleanResponse(env.raw)
             Fail(st, cause) ==
                 Result(GlobalsAfterGenerate(g, TRUE), GenerationFailed(cause), st,
                        <<"ERROR Generation failed">>)
         IN  IF FormatRaises(env)
             THEN Fail(FormatSteps(env), "apply_chat_template raised")
             ELSE IF env.fault \in {"make_sampler", "make_logits_processors", "generate"}
             THEN Fail(FormatSteps(env) \o SubSeq(Pipeline, 1, PipelineIndex(env.fault)),
                       env.fault \o " raised")
             ELSE IF env.fault = "tokenizer.encode" /\ response # <<>>
             THEN Fail(FormatSteps(env) \o Pipeline, env.fault \o " raised")
             ELSE Result(GlobalsAfterGenerate(g, FALSE),
                         OK(GenerateResponse(response,
                                             TokensGenerated(g.tokenizer, response))),
                         FormatSteps(env)
                             \o (IF response # <<>> THEN Pipeline
                                 ELSE SubSeq(Pipeline, 1, 3)),
                         <<>>)

\* generate_text meets no failure of an external call under env.
Healthy(env) ==
    /\ ~FormatRaises(env)
    /\ env.fault = "none"

----------------------------------------------------------------------------
(* Request validation: FastAPI answers 422 for a body that lacks a field   *)
(* the pydantic request model requires, without calling the handler.       *)

Missing == "<missing>"

\* server.py:40-42, 45-49
ValidationError(field) ==
    [code |-> 422, body |-> [detail |-> "Field required", cause |-> field]]

\* server.py:40-49: model_path and prompt are declared without a default, so a body
\* that lacks one is answered 422 and the handler is not called.
RejectedRequest_ReachesHandler(g, field) ==
    IF field = "model_path"
    THEN load_model_body(g, Missing, "FileNotFoundError", 0)
    ELSE generate_text_body(g, [template |-> "raises", fallback |-> "raises",
                                fault |-> "none", raw |-> <<>>])

RejectedRequest(g, field) == Result(g, ValidationError(field), <<>>, <<>>)

----------------------------------------------------------------------------
(* The load / status / generate / unload / status scenario, followed as a  *)
(* history variable: e2e.stage is the number of its steps that the last    *)
(* requests have performed in order, starting with a successful load on an *)
(* empty slot.                                                             *)

ScenarioStep(e, g, rq) ==
    IF rq.op = "load" /\ rq.model_path # Missing /\ rq.outcome = "ok" /\ g.model = None
    THEN [stage |-> 1, path |-> rq.model_path]
    ELSE IF e.stage = 1 /\ rq.op = "status" THEN [e EXCEPT !.stage = 2]
    ELSE IF e.stage = 2 /\ rq.op = "generate" /\ rq.prompt # Missing /\ Healthy(rq.env)
         THEN [e EXCEPT !.stage = 3]
    ELSE IF e.stage = 3 /\ rq.op = "unload" THEN [e EXCEPT !.stage = 4]
    ELSE IF e.stage = 4 /\ rq.op = "status" THEN [e EXCEPT !.stage = 5]
    ELSE [stage |-> 0, path |-> NoneStr]

----------------------------------------------------------------------------
(* The error categories that the answer r to the request rq falls in (of   *)
(* those a handler itself reports), kept as a history of the run.          *)

ErrorCategories(rq, r) ==
    (IF r.resp.code = 400 THEN {"PreconditionError"} ELSE {})
    \cup (IF rq.op = "load" /\ r.resp.code = 500 THEN {"LoadFailure"} ELSE {})
    \cup (IF rq.op = "generate" /\ r.resp.code = 500 THEN {"GenerationFailure"} ELSE {})
    \cup (IF \E k \in DOMAIN r.logged : r.logged[k] = "WARNING Failed to clear MLX Metal cache"
          THEN {"ReclaimWarning"} ELSE {})

----------------------------------------------------------------------------
(* The state machine.                                                      *)

NoResponse == [code |-> 0, body |-> [detail |-> NoneStr, cause |-> NoneStr]]

Init ==
    /\ model = None
    /\ tokenizer = None
    /\ current_model_path = NoneStr
    /\ serving = TRUE
    /\ mlx_lm \in BOOLEAN
    /\ nloads = 0
    /\ req = [op |-> "none"]
    /\ pre = EmptyGlobals
    /\ resp = NoResponse
    /\ steps = <<>>
    /\ logged = <<>>
    /\ e2e = [stage |-> 0, path |-> NoneStr]
    /\ seen_errors = {}
    /\ tasks = <<>>
    /\ current = 0
    /\ heap = {}
    /\ cleaning = [pc |-> "idle", trail |-> <<>>]
    /\ gen = [pc |-> "idle"]

\* One handler call: the request rq is answered with the result r.
Respond(rq, r) ==
    /\ model' = r.g.model
    /\ tokenizer' = r.g.tokenizer
    /\ current_model_path' = r.g.current_model_path
    /\ req' = rq
    /\ pre' = Globals
    /\ resp' = r.resp
    /\ steps' = r.steps
    /\ logged' = r.logged
    /\ e2e' = ScenarioStep(e2e, Globals, rq)
    /\ seen_errors' = seen_errors \cup ErrorCategories(rq, r)
    /\ UNCHANGED <<serving, mlx_lm, tasks, current, heap, cleaning, gen>>

get_status ==
    /\ serving
    /\ Respond([op |-> "status"], get_status_body(Globals))
    /\ UNCHANGED nloads

load_model ==
    /\ serving
    /\ \E p \in Paths, outcome \in LoadOutcomes :
          /\ outcome = "ok" => nloads < MaxLoads
          /\ Respond([op |-> "load", model_path |-> p, outcome |-> outcome],
                     load_model_body(Globals, p, outcome, nloads + 1))
          /\ nloads' = IF outcome = "ok" THEN nloads + 1 ELSE nloads

load_model_rejected ==
    /\ serving
    /\ Respond([op |-> "load", model_path |-> Missing],
               RejectedRequest(Globals, "model_path"))
    /\ UNCHANGED nloads

generate_text ==
    /\ serving
    /\ \E prompt \in Prompts, env \in GenerateEnvs :
          Respond([op |-> "generate", prompt |-> prompt, env |-> env],
                  generate_text_body(Globals, env))
    /\ UNCHANGED nloads

generate_text_rejected ==
    /\ serving
    /\ Respond([op |-> "generate", prompt |-> Missing],
               RejectedRequest(Globals, "prompt"))
    /\ UNCHANGED nloads

unload_model ==
    /\ serving
    /\ \E cache \in CacheOutcomes :
          Respond([op |-> "unload", cache |-> cache], unload_model_body(Globals, cache))
    /\ UNCHANGED nloads

\* server.py:76-83: the lifespan's shutdown half.
lifespan_shutdown ==
    /\ serving
    /\ serving' = FALSE
    /\ IF model # None
       THEN /\ model' = None
            /\ tokenizer' = None
            /\ current_model_path' = NoneStr
       ELSE UNCHANGED <<model, tokenizer, current_model_path>>
    /\ req' = [op |-> "shutdown"]
    /\ pre' = Globals
    /\ resp' = NoResponse
    /\ steps' = <<>>
    /\ logged' = <<>>
    /\ e2e' = [stage |-> 0, path |-> NoneStr]
    /\ UNCHANGED <<mlx_lm, nloads, seen_errors, tasks, current, heap, cleaning,
                   gen>>

Next ==
    \/ get_status
    \/ load_model
    \/ load_model_rejected
    \/ generate_text
    \/ generate_text_rejected
    \/ unload_model
    \/ lifespan_shutdown

Spec == Init /\ [][Next]_vars

----------------------------------------------------------------------------
(* Properties of the lifecycle and of generate's error handling.           *)

\* The request handled last was a well-formed one for operation op.
Handled(op) ==
    /\ req.op = op
    /\ op = "load" => req.model_path # Missing
    /\ op = "generate" => req.prompt # Missing

\* The slot was Empty / Loaded when the last request arrived.
WasEmpty == pre.model = None
WasLoaded == pre.model # None

\* C1: after any sequence of load (succeeding or failing) and unload calls from the
\* empty slot, whenever a handler has returned the model handle and the tokenizer
\* are both present or both absent.
C1_HandleAndTokenizerAgree == (model = None) <=> (tokenizer = None)

\* C1 witness: a load has failed over a Loaded slot, the case in which the old pair
\* is released without a new one taking its place.
C1_Witness_FailedLoadOverLoaded ==
    /\ Handled("load")
    /\ req.outcome # "ok"
    /\ WasLoaded
    /\ pre.tokenizer # None

\* C2: a generate that arrives while the slot is Empty is answered 400 with the
\* "No model loaded" detail, never 500, whatever the external calls would have
\* done, and before any formatting, sampler construction or decoding call is made.
C2_GenerateOnEmptyIsPreconditionError ==
    (Handled("generate") /\ WasEmpty) =>
        /\ resp.code = 400
        /\ resp.body.detail = "No model loaded. Call /load first."
        /\ steps = <<>>

\* C2 witness: a generate on a slot emptied by a lifecycle change, with a decoder
\* that would have raised had it been called.
C2_Witness_GenerateOnEmptiedSlot ==
    /\ Handled("generate")
    /\ WasEmpty
    /\ nloads > 0
    /\ req.env.fault = "generate"

\* C3: unload on an Empty slot changes nothing and returns 200 with status
\* "no_model_loaded" and model_loaded false; the slot it leaves answers a further
\* unload with that same response, so repeated unloads keep returning it.
C3_UnloadOnEmptyIsNoOp ==
    (Handled("unload") /\ WasEmpty) =>
        /\ resp.code = 200
        /\ resp.body.status = "no_model_loaded"
        /\ resp.body.model_loaded = FALSE
        /\ Globals = pre
        /\ \A cache \in CacheOutcomes :
              /\ unload_model_body(Globals, cache).resp = resp
              /\ unload_model_body(Globals, cache).g = Globals

\* C3 witness: an unload has been answered on an Empty slot.
C3_Witness_UnloadOnEmpty ==
    /\ Handled("unload")
    /\ WasEmpty
    /\ resp.code = 200

\* C4: a load whose source cannot be resolved or instantiated (or whose runtime
\* cannot be imported) returns 500 with detail "Failed to load model: <cause>" and
\* leaves handle and tokenizer absent, whether the slot was Empty or Loaded, so
\* that status reports model_loaded false.
C4_FailedLoadLeavesEmpty ==
    (Handled("load") /\ req.outcome # "ok") =>
        /\ resp.code = 500
        /\ resp.body.detail = "Failed to load model: "
        /\ resp.body.cause = req.outcome
        /\ model = None
        /\ tokenizer = None
        /\ StatusView(Globals).model_loaded = FALSE

\* C4 witness: the failing load arrived at a Loaded slot.
C4_Witness_FailedLoadOnLoaded ==
    /\ Handled("load")
    /\ req.outcome = "FileNotFoundError"
    /\ WasLoaded
    /\ resp.code = 500

\* C5: the end-to-end scenario from an Empty slot: a successful load(p) answers
\* "loaded" with p; the status after it reports model_loaded true and path p; a
\* generate whose external calls do not raise then succeeds with the cleaned text;
\* the unload after it answers "unloaded"; the status after that reports
\* model_loaded false.
C5_EndToEndScenario ==
    /\ e2e.stage = 1 =>
          /\ resp.code = 200
          /\ resp.body.status = "loaded"
          /\ resp.body.model_path = e2e.path
    /\ e2e.stage = 2 =>
          /\ resp.code = 200
          /\ resp.body.status = "running"
          /\ resp.body.model_loaded = TRUE
          /\ resp.body.model_path = e2e.path
    /\ e2e.stage = 3 =>
          /\ resp.code = 200
          /\ resp.body.response = CleanResponse(req.env.raw)
    /\ e2e.stage = 4 =>
          /\ resp.code = 200
          /\ resp.body.status = "unloaded"
    /\ e2e.stage = 5 =>
          /\ resp.code = 200
          /\ resp.body.status = "running"
          /\ resp.body.model_loaded = FALSE

\* C5 witness: the whole scenario has run, ending with the second status.
C5_Witness_ScenarioCompleted ==
    /\ e2e.stage = 5
    /\ req.op = "status"

\* C6: a successful load, from either state, answers {status: "loaded",
\* model_path: p}, leaves a fresh matching handle/tokenizer pair loaded from p in
\* place of whatever was resident, and the status view then reports model_loaded
\* true with path p.
C6_SuccessfulLoadRecordsPath ==
    (Handled("load") /\ req.outcome = "ok") =>
        /\ resp.code = 200
        /\ resp.body = LoadResponse("loaded", req.model_path)
        /\ model = ModelHandle(req.model_path, nloads)
        /\ tokenizer = TokenizerHandle(req.model_path, nloads)
        /\ model # pre.model
        /\ tokenizer # pre.tokenizer
        /\ StatusView(Globals) = StatusResponse("running", TRUE, req.model_path)

\* C6 witness: the successful load replaced a model loaded from another path.
C6_Witness_LoadReplacesOtherModel ==
    /\ Handled("load")
    /\ req.outcome = "ok"
    /\ WasLoaded
    /\ pre.current_model_path # req.model_path

\* C7: unload on a Loaded slot clears the slot and answers 200 "unloaded" with
\* model_loaded false and model_path null, also when the accelerator-cache release
\* raises: that only logs a warning.
C7_UnloadSucceedsDespiteCacheFailure ==
    (Handled("unload") /\ WasLoaded) =>
        /\ resp.code = 200
        /\ resp.body = StatusResponse("unloaded", FALSE, NoneStr)
        /\ Globals = EmptyGlobals
        /\ req.cache = "raises" =>
              logged = <<"WARNING Failed to clear MLX Metal cache">>
        /\ req.cache = "ok" => logged = <<>>

\* C7 witness: the cache release raised during an unload of a resident model.
C7_Witness_CacheReleaseFailed ==
    /\ Handled("unload")
    /\ WasLoaded
    /\ req.cache = "raises"

\* C8: the model_loaded and model_path values of unload's response equal those a
\* status query issued immediately afterwards reports.
C8_UnloadResponseIsStatusView ==
    Handled("unload") =>
        /\ resp.body.model_loaded = StatusView(Globals).model_loaded
        /\ resp.body.model_path = StatusView(Globals).model_path

\* C9: generate never mutates lifecycle state: after every generate request,
\* whatever its outcome, handle, tokenizer and recorded path are what they were
\* when it arrived.
C9_GenerateLeavesSlotUnchanged ==
    req.op = "generate" => Globals = pre

\* C9 witness: a generate on a Loaded slot has ended in a generation failure.
C9_Witness_GenerateFailedOnLoaded ==
    /\ Handled("generate")
    /\ WasLoaded
    /\ resp.code = 500

\* An external call that generate_text makes under env raises: formatting raises,
\* or sampler construction, logits-processor construction or decoding raises, or
\* the token count raises (it is called only for a non-empty cleaned text).
SomeCallRaises(env) ==
    \/ FormatRaises(env)
    \/ env.fault \in {"make_sampler", "make_logits_processors", "generate"}
    \/ env.fault = "tokenizer.encode" /\ CleanResponse(env.raw) # <<>>

\* C10: with a model loaded, a failure raised while formatting, building the
\* sampler, decoding or counting tokens is answered 500 with detail
\* "Generation failed: <cause>"; a generate on a Loaded slot is never answered
\* 400 and always gets a 200 or 500 response.
C10_FailuresAreGenerationFailures ==
    (Handled("generate") /\ WasLoaded) =>
        /\ resp.code \in {200, 500}
        /\ SomeCallRaises(req.env) =>
              /\ resp.code = 500
              /\ resp.body.detail = "Generation failed: "
              /\ resp.body.cause # NoneStr
              /\ logged = <<"ERROR Generation failed">>
        /\ ~SomeCallRaises(req.env) => resp.code = 200

\* C10 witness: the token count raised after a successful decode.
C10_Witness_EncodeRaised ==
    /\ Handled("generate")
    /\ WasLoaded
    /\ req.env.fault = "tokenizer.encode"
    /\ ~FormatRaises(req.env)
    /\ resp.code = 500

----------------------------------------------------------------------------
(* Properties of status and of request validation.                         *)

\* C11: status is callable in every state of the serving process, always answers
\* 200 with status "running", reports model_loaded true exactly when a model
\* handle is resident, and leaves handle, tokenizer and path as they were; on a
\* process that has loaded nothing yet it reports model_loaded false and
\* model_path null.
C11_StatusReportsResidency ==
    /\ serving => ENABLED get_status
    /\ req.op = "status" =>
          /\ resp.code = 200
          /\ resp.body.status = "running"
          /\ resp.body.model_loaded = (model # None)
          /\ resp.body.model_path = current_model_path
          /\ Globals = pre
          /\ nloads = 0 =>
                /\ resp.body.model_loaded = FALSE
                /\ resp.body.model_path = NoneStr

\* C11 witness: status has been answered on a slot whose handle is absent while a
\* path is still recorded, where residency and recorded path disagree.
C11_Witness_StatusOnReleasedSlot ==
    /\ req.op = "status"
    /\ pre.model = None
    /\ pre.current_model_path # NoneStr
    /\ resp.code = 200

\* C12: a load without model_path, or a generate without prompt, is answered 422
\* (neither 400 nor 500) without any call of the load or generate logic, and
\* leaves handle, tokenizer and path exactly as they were.
C12_MissingFieldIsRejected ==
    (\/ req.op = "load" /\ req.model_path = Missing
     \/ req.op = "generate" /\ req.prompt = Missing) =>
        /\ resp.code = 422
        /\ steps = <<>>
        /\ logged = <<>>
        /\ Globals = pre

\* C12 witness: a load without model_path arrived while a model was resident.
C12_Witness_RejectedLoadOnLoaded ==
    /\ req.op = "load"
    /\ req.model_path = Missing
    /\ pre.model # None
    /\ model = pre.model

----------------------------------------------------------------------------
(* The event loop.  uvicorn runs the app on one asyncio event loop; every  *)
(* request accepted becomes a task running its `async def` handler.  A     *)
(* task gives the loop back only at an await or at its return, and the     *)
(* handlers of server.py contain no await.  Here each handler is the       *)
(* sequence of its statements that read or write the globals or call the   *)
(* runtime, so that what another request could observe between two         *)
(* statements is a state of the model.                                     *)

\* Requests in flight (accepted, answered or not) in one run of the loop.
MaxRequests == 3

\* server.py:115-133
LoadProgram_CollectsFirst ==
    <<"import", "if_model", "gc.collect", "model=None", "tokenizer=None",
      "load", "store_model", "store_tokenizer", "store_path", "return">>

LoadProgram ==
    <<"import", "if_model", "model=None", "tokenizer=None", "gc.collect",
      "load", "store_model", "store_tokenizer", "store_path", "return">>

\* server.py:257-281
UnloadProgram ==
    <<"if_model", "model=None", "tokenizer=None", "path=None", "gc.collect",
      "clear_cache", "return">>

\* server.py:150-245.  "generate" is the call of mlx_lm.generate (which reads the
\* globals model and tokenizer), "decoded" its return: a task whose next
\* statement is "decoded" is decoding.
GenerateProgram ==
    <<"check", "apply_chat_template", "generate", "decoded", "encode", "return">>

\* server.py:97-101
StatusProgram == <<"return">>

Program(op) ==
    CASE op = "load" -> LoadProgram
      [] op = "unload" -> UnloadProgram
      [] op = "generate" -> GenerateProgram
      [] OTHER -> StatusProgram

Index(prog, label) == CHOOSE k \in 1..Len(prog) : prog[k] = label

\* server.py:95, 105, 141, 253: a handler yields to the loop after statement stmt
\* only if it awaits there; no handler awaits anything.
Yields_Always(op, stmt) == TRUE

Yields_WhileDecoding(op, stmt) == op = "generate" /\ stmt = "generate"

Yields(op, stmt) == FALSE

\* The requests the loop's clients send.  The outcome of the cache release of an
\* unload changes nothing another request can see, so unloads are sent with one;
\* failing loads are sent for one path.
LoopRequests ==
    {[op |-> "status", path |-> NoneStr, outcome |-> "ok", fault |-> "none",
      cache |-> "ok"]}
    \cup {[op |-> "load", path |-> p, outcome |-> o, fault |-> "none", cache |-> "ok"] :
             p \in Paths, o \in {"ok"} \cap LoadOutcomes}
    \cup {[op |-> "load", path |-> "/nonexistent/path/to/model", outcome |-> o,
           fault |-> "none", cache |-> "ok"] : o \in LoadOutcomes \ {"ok"}}
    \cup {[op |-> "unload", path |-> NoneStr, outcome |-> "ok", fault |-> "none",
           cache |-> "raises"]}
    \cup {[op |-> "generate", path |-> NoneStr, outcome |-> "ok", fault |-> f,
           cache |-> "ok"] : f \in {"none", "generate"}}

\* The text mlx_lm.generate returns in the loop's runs.
LoopRaw == <<" ", "H", "i", "\n">>

\* A task: its request, where it stands (state: "pending" before its first
\* statement, "ready" between statements, "done" once answered; pc: its next
\* statement), the globals it found when it started (g0), the pair a generate saw
\* at its check (chk), the handles it passed to the runtime (used), the pair a
\* load got back from load() and has not stored yet (tmp), its response (ret),
\* and the task that was running when its request arrived (during, 0 if none).
NewTask(rq) ==
    [during |-> current, op |-> rq.op, path |-> rq.path, outcome |-> rq.outcome, fault |-> rq.fault,
     cache |-> rq.cache, state |-> "pending", pc |-> 1, g0 |-> EmptyGlobals,
     chk |-> {}, used |-> {}, tmp |-> <<>>, ret |-> NoResponse]

Decoding(t) ==
    /\ t.op = "generate"
    /\ t.state = "ready"
    /\ GenerateProgram[t.pc] = "decoded"

\* The objects something still refers to: the globals, the pair a load holds
\* between load() and its stores, the arguments of a running generate() call.
Referenced(g, ts) ==
    ({g.model, g.tokenizer}
        \cup UNION {{ts[i].tmp[k] : k \in DOMAIN ts[i].tmp} : i \in DOMAIN ts}
        \cup UNION {IF Decoding(ts[i]) THEN ts[i].used ELSE {} : i \in DOMAIN ts})
    \ {None}

\* One statement of task t0, run on the globals, heap and load count as they are:
\* the task, globals, heap and load count it leaves.
Exec(t0) ==
    LET g == Globals
        t == IF t0.state = "pending" THEN [t0 EXCEPT !.g0 = g] ELSE t0
        prog == Program(t.op)
        stmt == prog[t.pc]
        next == [t EXCEPT !.pc = @ + 1, !.state = "ready"]
        Out(t2, g2, h2, n2) == [t |-> t2, g |-> g2, heap |-> h2, n |-> n2]
        Go(t2) == Out(t2, g, heap, nloads)
        Set(g2) == Out(next, g2, heap, nloads)
        Return(r) == Go([t EXCEPT !.ret = r, !.state = "done", !.tmp = <<>>])
    IN  CASE stmt = "model=None" -> Set([g EXCEPT !.model = None])
          [] stmt = "tokenizer=None" -> Set([g EXCEPT !.tokenizer = None])
          [] stmt = "path=None" -> Set([g EXCEPT !.current_model_path = NoneStr])
          [] stmt = "gc.collect" ->
                Out(next, g, heap \cap Referenced(g, tasks), nloads)
          [] stmt = "clear_cache" -> Go(next)
          [] stmt = "import" ->
                IF mlx_lm THEN Go(next) ELSE Return(LoadFailed("ModuleNotFoundError"))
          [] stmt = "if_model" /\ t.op = "load" ->
                IF g.model # None THEN Go(next)
                ELSE Go([t EXCEPT !.pc = Index(prog, "load"), !.state = "ready"])
          [] stmt = "if_model" /\ t.op = "unload" ->
                IF g.model = None THEN Return(NothingToUnload) ELSE Go(next)
          [] stmt = "load" ->
                IF t.outcome = "ok"
                THEN LET m == ModelHandle(t.path, nloads + 1)
                         k == TokenizerHandle(t.path, nloads + 1)
                     IN  Out([next EXCEPT !.tmp = <<m, k>>], g, heap \cup {m, k},
                             nloads + 1)
                ELSE Return(LoadFailed(t.outcome))
          [] stmt = "store_model" -> Set([g EXCEPT !.model = t.tmp[1]])
          [] stmt = "store_tokenizer" ->
                Out([next EXCEPT !.tmp = <<>>], [g EXCEPT !.tokenizer = t.tmp[2]],
                    heap, nloads)
          [] stmt = "store_path" -> Set([g EXCEPT !.current_model_path = t.path])
          [] stmt = "return" /\ t.op = "load" -> Return(Loaded(t.g0, t.path))
          [] stmt = "return" /\ t.op = "unload" -> Return(Unloaded)
          [] stmt = "return" /\ t.op = "status" -> Return(OK(StatusView(g)))
          [] stmt = "check" ->
                IF NoModelLoaded(g) THEN Return(NoModel)
                ELSE Go([next EXCEPT !.chk = {g.model, g.tokenizer}])
          [] stmt = "apply_chat_template" ->
                IF g.tokenizer = None
                THEN Return(GenerationFailed("AttributeError"))
                ELSE Go([next EXCEPT !.used = @ \cup {g.tokenizer}])
          [] stmt = "generate" ->
                IF g.model = None \/ g.tokenizer = None
                THEN Return(GenerationFailed("AttributeError"))
                ELSE Go([next EXCEPT !.used = @ \cup {g.model, g.tokenizer}])
          [] stmt = "decoded" ->
                IF t.fault = "generate"
                THEN Return(GenerationFailed("generate raised"))
                ELSE Go(next)
          [] stmt = "encode" ->
                IF CleanResponse(LoopRaw) = <<>> THEN Go(next)
                ELSE IF g.tokenizer = None
                THEN Return(GenerationFailed("AttributeError"))
                ELSE IF t.fault = "tokenizer.encode"
                THEN Return(GenerationFailed("tokenizer.encode raised"))
                ELSE Go([next EXCEPT !.used = @ \cup {g.tokenizer}])
          [] stmt = "return" /\ t.op = "generate" ->
                Return(OK(GenerateResponse(CleanResponse(LoopRaw),
                              TokensGenerated(g.tokenizer, CleanResponse(LoopRaw)))))

\* A client's request is accepted: its handler becomes a task of the loop.
Arrive(rq) ==
    /\ Len(tasks) < MaxRequests
    /\ (rq.op = "load" /\ rq.outcome = "ok") =>
          nloads + Cardinality({i \in DOMAIN tasks :
                                   /\ tasks[i].op = "load"
                                   /\ tasks[i].outcome = "ok"
                                   /\ tasks[i].state # "done"
                                   /\ tasks[i].tmp = <<>>
                                   /\ tasks[i].pc <= Index(LoadProgram, "load")})
              < MaxLoads
    /\ tasks' = Append(tasks, NewTask(rq))
    /\ UNCHANGED <<model, tokenizer, current_model_path, serving, mlx_lm, nloads,
                   req, pre, resp, steps, logged, e2e, seen_errors, current, heap,
                   cleaning, gen>>

\* The loop runs the next statement of task i: of the running task, or, when the
\* loop is idle, of any task that is not done.
Run(i) ==
    /\ i \in DOMAIN tasks
    /\ tasks[i].state # "done"
    /\ current \in {0, i}
    /\ LET x == Exec(tasks[i])
           stmt == Program(tasks[i].op)[tasks[i].pc]
       IN  /\ tasks' = [tasks EXCEPT ![i] = x.t]
           /\ model' = x.g.model
           /\ tokenizer' = x.g.tokenizer
           /\ current_model_path' = x.g.current_model_path
           /\ heap' = x.heap
           /\ nloads' = x.n
           /\ current' = IF x.t.state = "done" \/ Yields(tasks[i].op, stmt)
                         THEN 0 ELSE i
    /\ UNCHANGED <<serving, mlx_lm, req, pre, resp, steps, logged, e2e, seen_errors,
                   cleaning, gen>>

NextLoop ==
    \/ \E rq \in LoopRequests : Arrive(rq)
    \/ \E i \in 1..MaxRequests : Run(i)

SpecLoop == Init /\ [][NextLoop]_vars

----------------------------------------------------------------------------
(* Properties of the event loop.                                           *)

\* The statements of a handler, run without interruption, do what the handler's
\* body operator says: every task answered so far left the response that body
\* computes from the globals the task found.
LoopAgreesWithHandlers ==
    \A i \in DOMAIN tasks :
        LET t == tasks[i]
        IN  t.state = "done" =>
                t.ret =
                    CASE t.op = "status" -> get_status_body(t.g0).resp
                      [] t.op = "load" ->
                            load_model_body(t.g0, t.path, t.outcome, 0).resp
                      [] t.op = "unload" -> unload_model_body(t.g0, t.cache).resp
                      [] t.op = "generate" ->
                            generate_text_body(t.g0,
                                [template |-> "ok", fallback |-> "ok",
                                 fault |-> t.fault, raw |-> LoopRaw]).resp

ResidentModels == {h \in heap : h.kind = "model"}

\* Task i is a load about to call load().
AboutToAcquire(i) ==
    /\ tasks[i].op = "load"
    /\ tasks[i].state = "ready"
    /\ LoadProgram[tasks[i].pc] = "load"

\* C13: at every point of every execution at most one model is resident, and when
\* a load is about to acquire the new model nothing is resident any more: the old
\* handle and tokenizer have been released and reclaimed before load() is called.
C13_AtMostOneModelResident ==
    /\ Cardinality(ResidentModels) <= 1
    /\ \A i \in DOMAIN tasks : (current = i /\ AboutToAcquire(i)) => heap = {}

\* C13 witness: a load that found the slot Loaded holds the pair load() has just
\* returned.
C13_Witness_AcquiredOverLoaded ==
    \E i \in DOMAIN tasks :
        /\ tasks[i].op = "load"
        /\ tasks[i].g0.model # None
        /\ tasks[i].tmp # <<>>
        /\ tasks[i].tmp[1] \in heap

\* C14: while a generate is decoding, a request that is waiting (a status, and
\* likewise a load or an unload) can be run by the loop: the decode does not hold
\* it back until generation completes.
C14_StatusNotBlockedByDecode ==
    \A i \in DOMAIN tasks, j \in DOMAIN tasks :
        (Decoding(tasks[j]) /\ tasks[i].state = "pending") => ENABLED Run(i)

\* C15: a generate that passed its check against a model passes to the runtime,
\* for formatting, decoding and token counting, only that model and its
\* tokenizer, whatever other requests are in flight.
C15_GenerateUsesCheckedPair ==
    \A i \in DOMAIN tasks :
        tasks[i].op = "generate" => tasks[i].used \subseteq tasks[i].chk

\* C15 witness: a generate has succeeded although a load that replaces its model
\* arrived while it was running; the load has been answered too.
C15_Witness_GenerateWithLoadInFlight ==
    \E i \in DOMAIN tasks, j \in DOMAIN tasks :
        /\ tasks[i].op = "generate"
        /\ tasks[i].ret.code = 200
        /\ tasks[j].op = "load"
        /\ tasks[j].during = i
        /\ tasks[j].ret.code = 200
        /\ tasks[j].g0.model \in tasks[i].used

\* C16: the slot is half-updated (handle without tokenizer or tokenizer without
\* handle) only inside a running load or unload, which no other request can
\* interleave with: whenever the loop can run another request, handle and
\* tokenizer are both present or both absent.
C16_NoHalfUpdatedSlotObserved ==
    ((model = None) # (tokenizer = None)) =>
        /\ current # 0
        /\ tasks[current].op \in {"load", "unload"}
        /\ \A i \in DOMAIN tasks : i # current => ~ENABLED Run(i)

\* C16 witness: a load is between its two stores while other requests wait.
C16_Witness_HalfUpdatedWhileOthersWait ==
    /\ model # None
    /\ tokenizer = None
    /\ \E i \in DOMAIN tasks : tasks[i].state = "pending"

----------------------------------------------------------------------------
(* Properties of the error handling as a whole.                            *)

\* No external call occurs twice in the calls a handler made.
NoCallRepeated(st) ==
    \A i \in DOMAIN st, j \in DOMAIN st : i # j => st[i] # st[j]

\* C17: no error is fatal.  Whatever load failures, generation failures,
\* precondition errors and reclaim warnings the requests so far have met, the
\* process is still serving and each of status, load, generate and unload can
\* still be called; the request handled last got one response, of a category
\* fixed by the slot it found (and, for a load or for a generate on a Loaded slot,
\* by what the runtime did), and its handler made no external call twice.
C17_NoErrorIsFatal ==
    req.op \notin {"none", "shutdown"} =>
        /\ serving
        /\ ENABLED get_status
        /\ ENABLED load_model
        /\ ENABLED generate_text
        /\ ENABLED unload_model
        /\ resp.code \in {200, 400, 422, 500}
        /\ NoCallRepeated(steps)
        /\ Handled("status") => resp.code = 200
        /\ Handled("unload") =>
              /\ resp.code = 200
              /\ (resp.body.status = "no_model_loaded") <=> WasEmpty
        /\ Handled("generate") =>
              /\ (resp.code = 400) <=> WasEmpty
              /\ (resp.code = 500) <=> (WasLoaded /\ SomeCallRaises(req.env))
        /\ Handled("load") =>
              /\ (resp.code = 200) <=> (req.outcome = "ok")
              /\ (resp.code = 500) <=> (req.outcome # "ok")

\* C17 witness: after a load failure, a generation failure, a precondition error
\* and a reclaim warning, a generate is answered 200.
C17_Witness_ServesAfterAllErrors ==
    /\ {"LoadFailure", "GenerationFailure", "PreconditionError", "ReclaimWarning"}
          \subseteq seen_errors
    /\ Handled("generate")
    /\ resp.code = 200

----------------------------------------------------------------------------
(* The cleaning of the decoder's output (server.py:209-237), statement by  *)
(* statement: `cleaning.trail` records the value of `response` as          *)
(* generate() returned it and after each statement that assigns it.        *)

\* The longest decoder output built from chunks, in chunks.
MaxChunks == 4

\* The pieces the decoder outputs are built from: the markers the cleaning looks
\* for, the two halves of one of them, the whitespace it strips or splits at, and
\* two characters of other text.
Chunks ==
    {ThinkOpen, ThinkClose, OutputMarker, TextMarker, ParagraphBreak,
     <<"<", "t", "h", "i">>, <<"n", "k", ">">>, <<" ">>, <<"X">>, <<"Y">>}

RECURSIVE ChunkTexts(_)
ChunkTexts(n) ==
    IF n = 0
    THEN {<<>>}
    ELSE LET shorter == ChunkTexts(n - 1)
         IN  shorter \cup {t \o c : t \in shorter, c \in Chunks}

\* spec.md's example; tests/test_server.py:72-77 has the same shape
ThinkingBlock ==
    <<"<", "t", "h", "i", "n", "k", ">", "X", "<", "/", "t", "h", "i", "n",
      "k", ">", "Y">>

\* tests/test_server.py:79-84
MultilineThinkingBlock ==
    <<"<", "t", "h", "i", "n", "k", ">", "\n", "S", "t", "e", "p", " ", "1",
      ":", " ", "A", "n", "a", "l", "y", "z", "e", "\n", "S", "t", "e",
      "p", " ", "2", ":", " ", "P", "r", "o", "c", "e", "s", "s", "\n",
      "<", "/", "t", "h", "i", "n", "k", ">", "T", "h", "e", " ", "a",
      "n", "s", "w", "e", "r", " ", "i", "s", " ", "4", "2">>

\* tests/test_server.py:86-91
RepeatedOutput ==
    <<"O", "u", "t", "p", "u", "t", ":", " ", "H", "e", "l", "l", "o", "\n",
      "\n", "O", "u", "t", "p", "u", "t", ":", " ", "W", "o", "r", "l",
      "d">>

\* tests/test_server.py:93-99
RepeatedText ==
    <<"H", "e", "l", "l", "o", " ", "w", "o", "r", "l", "d", " ", "T", "e",
      "x", "t", ":", " ", "r", "e", "p", "e", "a", "t", "e", "d", " ",
      "T", "e", "x", "t", ":", " ", "a", "g", "a", "i", "n">>

\* tests/test_server.py:108-113
PaddedText ==
    <<" ", " ", "\n", " ", " ", "H", "e", "l", "l", "o", " ", "w", "o", "r",
      "l", "d", " ", " ", "\n", " ", " ">>

\* tests/test_server.py:115-120
CleanText ==
    <<"T", "h", "i", "s", " ", "i", "s", " ", "a", " ", "c", "l", "e", "a",
      "n", " ", "t", "r", "a", "n", "s", "l", "a", "t", "i", "o", "n", ".">>

\* a reasoning block that holds the marker of a later stage (server.py:212, 225)
MarkersInsideBlock ==
    <<"<", "t", "h", "i", "n", "k", ">", "T", "e", "x", "t", ":", " ", "a",
      " ", "T", "e", "x", "t", ":", " ", "b", "<", "/", "t", "h", "i",
      "n", "k", ">", "H", "e", "l", "l", "o">>

\* the two halves of a <think> around a reasoning block (server.py:212)
JoinedFragments ==
    <<"<", "t", "h", "i", "<", "t", "h", "i", "n", "k", ">", "X", "<", "/",
      "t", "h", "i", "n", "k", ">", "n", "k", ">", "Y", "<", "/", "t",
      "h", "i", "n", "k", ">">>

Examples ==
    {ThinkingBlock, MultilineThinkingBlock, RepeatedOutput, RepeatedText,
     PaddedText, CleanText, MarkersInsideBlock, JoinedFragments}

\* What generate() can return (server.py:197-205).
DecoderOutputs == ChunkTexts(MaxChunks) \cup Examples

Response == cleaning.trail[Len(cleaning.trail)]

Assign(pc, text) == [pc |-> pc, trail |-> Append(cleaning.trail, text)]

CleaningFrame ==
    UNCHANGED <<model, tokenizer, current_model_path, serving, mlx_lm, nloads,
                req, pre, resp, steps, logged, e2e, seen_errors, tasks, current,
                heap, gen>>

\* The cutoff placed before the removal of the reasoning blocks.
CleaningProgram_CutoffFirst == <<"if_text", "re_sub", "if_output", "strip">>

\* server.py:212, 215, 225, 237: the statements under `if response:`, in order.
CleaningProgram == <<"re_sub", "if_output", "if_text", "strip">>

\* The statement that runs after statement pc has assigned `response`.
StatementAfter(pc) ==
    IF pc = CleaningProgram[Len(CleaningProgram)]
    THEN "cleaned"
    ELSE CleaningProgram[Index(CleaningProgram, pc) + 1]

\* server.py:197-205: generate() returns the raw text.
decoded ==
    /\ cleaning.pc = "idle"
    /\ \E raw \in DecoderOutputs : cleaning' = [pc |-> "if_response", trail |-> <<raw>>]
    /\ CleaningFrame

\* server.py:210: `if response:`; an empty text skips the cleaning.
if_response ==
    /\ cleaning.pc = "if_response"
    /\ cleaning' = [cleaning EXCEPT !.pc = IF Truthy(Response) THEN CleaningProgram[1]
                                           ELSE "cleaned"]
    /\ CleaningFrame

\* server.py:212
re_sub ==
    /\ cleaning.pc = "re_sub"
    /\ cleaning' = Assign(StatementAfter("re_sub"), RemoveThink(Response))
    /\ CleaningFrame

\* server.py:215-222
if_output ==
    /\ cleaning.pc = "if_output"
    /\ cleaning' = Assign(StatementAfter("if_output"), ExtractFirstOutput(Response))
    /\ CleaningFrame

\* server.py:225-234
if_text ==
    /\ cleaning.pc = "if_text"
    /\ cleaning' = Assign(StatementAfter("if_text"), CutTextLoop(Response))
    /\ CleaningFrame

\* server.py:237
strip ==
    /\ cleaning.pc = "strip"
    /\ cleaning' = Assign(StatementAfter("strip"), Strip(Response))
    /\ CleaningFrame

\* server.py:239-244: the cleaned text is logged, counted and returned.
cleaned ==
    /\ cleaning.pc = "cleaned"
    /\ cleaning' = [pc |-> "idle", trail |-> <<>>]
    /\ CleaningFrame

NextClean ==
    \/ decoded
    \/ if_response
    \/ re_sub
    \/ if_output
    \/ if_text
    \/ strip
    \/ cleaned

\* generate() has returned, so mlx_lm is importable in this process.
InitClean == Init /\ mlx_lm

SpecClean == InitClean /\ [][NextClean]_vars

\* The cleaning as a function of any value of `response`, the absent one (None)
\* included: generate() of mlx_lm returns a str, so only a caller of the cleaning
\* on its own (tests/test_server.py:101-106) passes None.
decoded_absent ==
    /\ cleaning.pc = "idle"
    /\ cleaning' = [pc |-> "if_response", trail |-> <<Absent>>]
    /\ CleaningFrame

NextCleanAny ==
    \/ NextClean
    \/ decoded_absent

SpecCleanAny == InitClean /\ [][NextCleanAny]_vars

\* The statements agree with the cleaning as generate_text's response carries it.
CleaningAgreesWithHandler ==
    cleaning.pc = "cleaned" => Response = CleanResponse(cleaning.trail[1])

----------------------------------------------------------------------------
(* Properties of the cleaning.                                             *)

Raw == cleaning.trail[1]

\* The indices (from 0) at which sub occurs in s.
Occurrences(s, sub) == {i \in 0..(Len(s) - Len(sub)) : OccursAt(s, sub, i)}

\* The reasoning blocks of s: <<i, j>> where <think> occurs at i and the next
\* </think> after it occurs at j.
Blocks(s) ==
    LET closes == Occurrences(s, ThinkClose)
    IN  {<<i, j>> \in Occurrences(s, ThinkOpen) \X closes :
            /\ j >= i + Len(ThinkOpen)
            /\ \A k \in closes : k >= i + Len(ThinkOpen) => k >= j}

\* The positions (from 1) of the characters of s that lie in a reasoning block,
\* delimiters included.
InBlocks(s) == UNION {(b[1] + 1)..(b[2] + Len(ThinkClose)) : b \in Blocks(s)}

\* The characters of s from position p on whose positions are not in `drop`.
RECURSIVE Without(_, _, _)
Without(s, drop, p) ==
    IF p > Len(s)
    THEN <<>>
    ELSE (IF p \in drop THEN <<>> ELSE <<s[p]>>) \o Without(s, drop, p + 1)

\* s without the characters that lie in a reasoning block.
OutsideBlocks(s) == Without(s, InBlocks(s), 1)

Chars(s) == {s[k] : k \in DOMAIN s}

\* The characters of s that occur in it only within reasoning blocks.
OnlyInBlocks(s) ==
    LET inside == InBlocks(s)
    IN  {s[p] : p \in inside} \ {s[p] : p \in (DOMAIN s) \ inside}

\* C18: the first statement of the cleaning removes exactly the reasoning blocks
\* (each <think> up to the next </think>, across lines, however many there are),
\* the cleaned text holds no character that the raw text had only inside reasoning
\* blocks, and "<think>X</think>Y" is cleaned to "Y" (a block that spans lines
\* likewise).
C18_ReasoningBlocksRemoved ==
    /\ cleaning.pc = "if_output" => Response = OutsideBlocks(Raw)
    /\ cleaning.pc = "cleaned" /\ Raw # <<>>
           => /\ Chars(Response) \cap OnlyInBlocks(Raw) = {}
              /\ Raw = ThinkingBlock => Response = <<"Y">>
              /\ Raw = MultilineThinkingBlock
                     => Response = <<"T", "h", "e", " ", "a", "n", "s", "w", "e", "r",
                                     " ", "i", "s", " ", "4", "2">>

\* A raw text with a reasoning block that spans lines and with text outside it has
\* been cleaned to that text.
C18_Witness_MultilineBlockRemoved ==
    /\ cleaning.pc = "cleaned"
    /\ Len(cleaning.trail) = 5
    /\ \E p \in InBlocks(Raw) : Raw[p] = "\n"
    /\ \E p \in (DOMAIN Raw) \ InBlocks(Raw) : Raw[p] \notin Whitespace
    /\ OnlyInBlocks(Raw) \ Whitespace # {}
    /\ Response = Strip(OutsideBlocks(Raw))
    /\ Response # <<>>

\* The text that follows the "Output:" at index i of s, up to the next "Output:"
\* or the end: its positions (from 1).
SectionAfter(s, i) ==
    LET later == {k \in Occurrences(s, OutputMarker) : k > i}
        stop == IF later = {} THEN Len(s) ELSE SetMin(later)
    IN  (i + Len(OutputMarker) + 1)..stop

Visible(s, ps) == {p \in ps : s[p] \notin Whitespace}

\* The "Output:" markers of s that some non-blank text follows.
AnsweredMarkers(s) ==
    {i \in Occurrences(s, OutputMarker) : Visible(s, SectionAfter(s, i)) # {}}

\* The first paragraph of the first non-blank section of s, by position: from the
\* section's first visible character to its last one, or to just before the first
\* blank line between them.
FirstAnswer(s) ==
    LET shown == Visible(s, SectionAfter(s, SetMin(AnsweredMarkers(s))))
        lo == SetMin(shown)
        hi == SetMax(shown)
        breaks == {p \in lo..(hi - 1) : s[p] = "\n" /\ s[p + 1] = "\n"}
    IN  SubSeq(s, lo, IF breaks = {} THEN hi ELSE SetMin(breaks) - 1)

\* C19: where "Output:" occurs in the text that reaches the first-section
\* extraction, the stage leaves the first paragraph of the first non-blank section
\* that follows a marker (nothing from before the first marker, blank sections
\* skipped), and where it does not occur the stage leaves the text as it was;
\* "Output: Hello\n\nOutput: World" is cleaned to "Hello".
C19_FirstSectionExtracted ==
    /\ cleaning.pc = "if_text"
           => LET s == cleaning.trail[2]
              IN  /\ AnsweredMarkers(s) # {} => Response = FirstAnswer(s)
                  /\ Occurrences(s, OutputMarker) = {} => Response = s
    /\ cleaning.pc = "cleaned" /\ Raw = RepeatedOutput
           => Response = <<"H", "e", "l", "l", "o">>

\* The extraction has acted on a text with other text before its first marker and
\* a blank section after it, and has left the section after a later marker.
C19_Witness_BlankSectionSkipped ==
    /\ cleaning.pc = "if_text"
    /\ LET s == cleaning.trail[2]
           first == SetMin(Occurrences(s, OutputMarker))
       IN  /\ Occurrences(s, OutputMarker) # {}
           /\ Visible(s, 1..first) # {}
           /\ first \notin AnsweredMarkers(s)
           /\ AnsweredMarkers(s) # {}
           /\ Response # <<>>
           /\ Response # s

\* The characters of s at the positions ps (an interval), without the whitespace
\* at either end.
Trimmed(s, ps) ==
    LET shown == Visible(s, ps)
    IN  IF shown = {} THEN <<>> ELSE SubSeq(s, SetMin(shown), SetMax(shown))

\* C20: where "Text:" occurs more than once in the text that reaches the loop
\* cutoff and not at its very start, the stage leaves the text before the first
\* occurrence, trimmed; where it occurs at most once the stage leaves the text as
\* it was; "Hello world Text: repeated Text: again" is cleaned to "Hello world".
C20_LoopCutAtFirstMarker ==
    /\ cleaning.pc = "strip"
           => LET s == cleaning.trail[3]
                  marks == Occurrences(s, TextMarker)
              IN  /\ Cardinality(marks) > 1 /\ 0 \notin marks
                         => Response = Trimmed(s, 1..SetMin(marks))
                  /\ Cardinality(marks) <= 1 => Response = s
    /\ cleaning.pc = "cleaned" /\ Raw = RepeatedText
           => Response = <<"H", "e", "l", "l", "o", " ", "w", "o", "r", "l", "d">>

\* The cutoff has acted on a text that repeats "Text:" after some other text, and
\* has left that text.
C20_Witness_CutAtFirstMarker ==
    /\ cleaning.pc = "strip"
    /\ LET s == cleaning.trail[3]
           marks == Occurrences(s, TextMarker)
       IN  /\ Cardinality(marks) > 1
           /\ 0 \notin marks
           /\ Response # <<>>
           /\ Len(Response) < SetMin(marks)

\* C21: where "Text:" occurs more than once in the text that reaches the loop
\* cutoff and its first occurrence is at the very start, the stage cuts at the
\* second occurrence: it leaves the leading marker and what follows it up to the
\* second marker, trimmed, which is not empty, and the cleaned text is that.
C21_LeadingMarkerCutAtSecond ==
    cleaning.pc \in {"strip", "cleaned"} /\ Len(cleaning.trail) >= 4
        => LET s == cleaning.trail[3]
               marks == Occurrences(s, TextMarker)
           IN  Cardinality(marks) > 1 /\ 0 \in marks
                   => /\ cleaning.trail[4] = Trimmed(s, 1..SetMin(marks \ {0}))
                      /\ Occurrences(Response, TextMarker) = {0}
                      /\ Response = cleaning.trail[4]

\* The cutoff has acted on a text that starts with "Text:", has other text after
\* it and then repeats the marker.
C21_Witness_LeadingMarkerKept ==
    /\ cleaning.pc = "strip"
    /\ LET s == cleaning.trail[3]
           marks == Occurrences(s, TextMarker)
       IN  /\ Cardinality(marks) > 1
           /\ 0 \in marks
           /\ Len(Response) > Len(TextMarker)
           /\ Len(Response) < Len(s)

\* C22: the cleaning never fails: whatever the input, it ends with a text, after
\* all four statements where the input is not empty; and an empty or absent input
\* is cleaned to the empty string.
C22_SanitizerIsTotal ==
    cleaning.pc = "cleaned"
        => /\ Response # Absent
           /\ Truthy(cleaning.trail[1]) => Len(cleaning.trail) = 5
           /\ cleaning.trail[1] \in {<<>>, Absent} => Response = <<>>

\* C23: cleaning a cleaned text changes nothing: sanitize(sanitize(x)) = sanitize(x)
\* for every input x.
C23_SanitizerIsIdempotent ==
    cleaning.pc = "cleaned" => CleanResponse(Response) = Response

\* The positions (from 1) of s that an "Output:" or a "Text:" covers.
MarkerPositions(s) ==
    UNION {(i + 1)..(i + Len(OutputMarker)) : i \in Occurrences(s, OutputMarker)}
        \cup UNION {(i + 1)..(i + Len(TextMarker)) : i \in Occurrences(s, TextMarker)}

\* s has answer or echo markers, all of them inside reasoning blocks.
MarkersOnlyInBlocks(s) ==
    /\ MarkerPositions(s) # {}
    /\ MarkerPositions(s) \subseteq InBlocks(s)

\* C24: the reasoning blocks are removed first and each later stage works on what
\* the stage before it left, so where the raw text has answer or echo markers only
\* inside reasoning blocks, the extraction and the cutoff change nothing and the
\* cleaned text is the text outside the blocks, trimmed;
\* "<think>Text: a Text: b</think>Hello" is cleaned to "Hello".
C24_BlocksRemovedBeforeMarkersAreRead ==
    cleaning.pc = "cleaned" /\ Len(cleaning.trail) = 5
        => /\ MarkersOnlyInBlocks(Raw)
                  => /\ cleaning.trail[2] = OutsideBlocks(Raw)
                     /\ cleaning.trail[3] = cleaning.trail[2]
                     /\ cleaning.trail[4] = cleaning.trail[2]
                     /\ Response = Trimmed(cleaning.trail[2], DOMAIN cleaning.trail[2])
           /\ Raw = MarkersInsideBlock => Response = <<"H", "e", "l", "l", "o">>

\* A text whose only markers lie in a reasoning block, enough of them for a later
\* stage to act on, has been cleaned to the text outside the block.
C24_Witness_MarkersInsideBlockIgnored ==
    /\ cleaning.pc = "cleaned"
    /\ Len(cleaning.trail) = 5
    /\ MarkersOnlyInBlocks(Raw)
    /\ \/ Occurrences(Raw, OutputMarker) # {}
       \/ Cardinality(Occurrences(Raw, TextMarker)) > 1
    /\ Response # <<>>

\* s is empty or starts and ends with a character that is not whitespace.
IsTrimmed(s) == s = <<>> \/ (s[1] \notin Whitespace /\ s[Len(s)] \notin Whitespace)

\* s has no reasoning block, no "Output:" and at most one "Text:".
NothingToClean(s) ==
    /\ Blocks(s) = {}
    /\ Occurrences(s, OutputMarker) = {}
    /\ Cardinality(Occurrences(s, TextMarker)) <= 1

\* C25: the cleaned text never starts or ends with whitespace, and a text with no
\* reasoning block, no answer marker and at most one echo marker is cleaned to
\* itself, trimmed (blank lines between its paragraphs stay); the padded and the
\* clean text of the tests are cleaned as the tests say.
C25_ResultIsTrimmed ==
    cleaning.pc = "cleaned"
        => /\ IsTrimmed(Response)
           /\ NothingToClean(Raw) => Response = Trimmed(Raw, DOMAIN Raw)
           /\ Raw = PaddedText
                  => Response = <<"H", "e", "l", "l", "o", " ", "w", "o", "r", "l", "d">>
           /\ Raw = CleanText => Response = CleanText

\* A text of two paragraphs with whitespace around it and nothing else to clean
\* has been cleaned.
C25_Witness_PaddedParagraphsKept ==
    /\ cleaning.pc = "cleaned"
    /\ NothingToClean(Raw)
    /\ Response # Raw
    /\ \E p \in 2..(Len(Response) - 2) :
           Response[p] = "\n" /\ Response[p + 1] = "\n"

----------------------------------------------------------------------------
(* One generate_text call (server.py:140-249), statement by statement, with *)
(* the arguments of every external call it makes.  Handlers do not          *)
(* interleave, so the call runs from its request to its response alone.     *)
(* Numbers with a fraction are written in hundredths: 0.7 is 70.            *)

\* server.py:48-49: the defaults of GenerateRequest.
DefaultMaxTokens == 150
DefaultTemperature == 70

\* server.py:186-187: the sampler settings that are written into the call.
SamplerTopP == 80
MinTokensToKeep == 1

\* server.py:193-194
RepetitionPenalty == 115
RepetitionContextSize == 64

\* A key of a JSON body: absent, or present with a value.
Omitted == <<>>
Given(v) == <<v>>

\* The JSON bodies the repository's callers post to /generate.
\*   tests/test_server.py:31-35
TestBody ==
    [prompt |-> "Translate: Hello world", max_tokens |-> Given(50),
     temperature |-> Given(70), top_p |-> Omitted, min_p |-> Omitted]

\*   scripts/optimize_prompt.py:133-140
OptimizeBody ==
    [prompt |-> "Translate: Hello world", max_tokens |-> Given(-1),
     temperature |-> Given(0), top_p |-> Given(100), min_p |-> Given(0)]

\*   scripts/benchmark_correction.py:95-103, with --temp 0.7 --top-p 0.95 --min-p 0.05
BenchmarkBody ==
    [prompt |-> "Translate: Hello world", max_tokens |-> Given(-1),
     temperature |-> Given(70), top_p |-> Given(95), min_p |-> Given(5)]

\*   a body with the prompt alone
PromptOnlyBody ==
    [prompt |-> "Translate: Hello world", max_tokens |-> Omitted,
     temperature |-> Omitted, top_p |-> Omitted, min_p |-> Omitted]

GenerateBodies == {TestBody, OptimizeBody, BenchmarkBody, PromptOnlyBody}

\* server.py:45-49: pydantic builds the GenerateRequest from the body: the three
\* declared fields, a default for a declared field the body lacks, and nothing of
\* the keys the model does not declare.
GenerateRequest(body) ==
    [prompt |-> body.prompt,
     max_tokens |-> IF body.max_tokens = Omitted THEN DefaultMaxTokens
                    ELSE body.max_tokens[1],
     temperature |-> IF body.temperature = Omitted THEN DefaultTemperature
                     ELSE body.temperature[1]]

\* server.py:163
Messages(request) == <<[role |-> "user", content |-> request.prompt]>>

\* server.py:165-170 (toggle = "False") and 174-178 (toggle = Missing).
ApplyChatTemplate(messages, toggle) ==
    [fn |-> "apply_chat_template", messages |-> messages, tokenize |-> FALSE,
     add_generation_prompt |-> TRUE, enable_thinking |-> toggle]

\* What apply_chat_template returns: the text the tokenizer's template renders
\* from the call's arguments.
Formatted(call) ==
    [template |-> "chat", turns |-> call.messages,
     generation_prompt |-> call.add_generation_prompt,
     thinking |-> call.enable_thinking]

\* server.py:184-188: temp from the request, top_p written in, min_p not passed.
MakeSampler(request) ==
    [fn |-> "make_sampler", temp |-> request.temperature, top_p |-> SamplerTopP,
     min_p |-> Omitted, min_tokens_to_keep |-> MinTokensToKeep]

\* server.py:192-195
MakeLogitsProcessors ==
    [fn |-> "make_logits_processors", repetition_penalty |-> RepetitionPenalty,
     repetition_context_size |-> RepetitionContextSize]

\* server.py:197-205
Generate(g, formatted_prompt, request) ==
    [fn |-> "generate", model |-> g.model, tokenizer |-> g.tokenizer,
     prompt |-> formatted_prompt, max_tokens |-> request.max_tokens,
     sampler |-> MakeSampler(request), logits_processors |-> MakeLogitsProcessors,
     verbose |-> FALSE]

\* server.py:242
TokenizerEncode(text) == [fn |-> "tokenizer.encode", text |-> text]

\* The inner except clause lost: a TypeError goes to the outer one.
CatchesTypeError_Never(outcome) == FALSE

\* server.py:172: `except TypeError:` around the first formatting call.
CatchesTypeError(outcome) == outcome = "TypeError"

\* The count taken of the decoder's text.
CountedText_Raw(raw, text) == raw

\* server.py:242: the text whose tokens are counted is `response` as the cleaning
\* left it.
CountedText(raw, text) == text

GenFrame ==
    UNCHANGED <<model, tokenizer, current_model_path, serving, mlx_lm, nloads,
                req, pre, resp, steps, logged, e2e, seen_errors, tasks, current,
                heap, cleaning>>

Called(call) == Append(gen.calls, call)

\* The call `name` raises under the call's environment.
Raises(name) == gen.env.fault = name

\* Control passes to the outer except clause (server.py:247) with the exception.
Raise(calls, cause) == [gen EXCEPT !.pc = "except", !.calls = calls, !.cause = cause]

\* FastAPI has parsed the body and calls the handler.
gen_request ==
    /\ gen.pc = "idle"
    /\ serving
    /\ \E body \in GenerateBodies, env \in GenerateEnvs :
          gen' = [pc |-> "check", body |-> body, env |-> env,
                  request |-> GenerateRequest(body), calls |-> <<>>,
                  formatted_prompt |-> NoneStr, response |-> <<>>,
                  tokens_generated |-> 0, cause |-> NoneStr, out |-> NoResponse]
    /\ GenFrame

\* server.py:150-151
gen_check ==
    /\ gen.pc = "check"
    /\ gen' = IF NoModelLoaded(Globals)
              THEN [gen EXCEPT !.pc = "done", !.out = NoModel]
              ELSE [gen EXCEPT !.pc = "apply_chat_template"]
    /\ GenFrame

\* server.py:163-171
gen_apply_chat_template ==
    /\ gen.pc = "apply_chat_template"
    /\ LET call == ApplyChatTemplate(Messages(gen.request), "False")
       IN  gen' = IF gen.env.template = "ok"
                  THEN [gen EXCEPT !.pc = "make_sampler", !.calls = Called(call),
                                   !.formatted_prompt = Formatted(call)]
                  ELSE IF CatchesTypeError(gen.env.template)
                  THEN [gen EXCEPT !.pc = "except TypeError", !.calls = Called(call)]
                  ELSE Raise(Called(call), "apply_chat_template raised")
    /\ GenFrame

\* server.py:172-179
gen_except_TypeError ==
    /\ gen.pc = "except TypeError"
    /\ LET call == ApplyChatTemplate(Messages(gen.request), Missing)
       IN  gen' = IF gen.env.fallback = "ok"
                  THEN [gen EXCEPT !.pc = "make_sampler", !.calls = Called(call),
                                   !.formatted_prompt = Formatted(call)]
                  ELSE Raise(Called(call), "apply_chat_template raised")
    /\ GenFrame

\* server.py:184-188
gen_make_sampler ==
    /\ gen.pc = "make_sampler"
    /\ gen' = IF Raises("make_sampler")
              THEN Raise(Called(MakeSampler(gen.request)), "make_sampler raised")
              ELSE [gen EXCEPT !.pc = "make_logits_processors",
                               !.calls = Called(MakeSampler(gen.request))]
    /\ GenFrame

\* server.py:191-195
gen_make_logits_processors ==
    /\ gen.pc = "make_logits_processors"
    /\ gen' = IF Raises("make_logits_processors")
              THEN Raise(Called(MakeLogitsProcessors), "make_logits_processors raised")
              ELSE [gen EXCEPT !.pc = "generate", !.calls = Called(MakeLogitsProcessors)]
    /\ GenFrame

\* server.py:197-205
gen_generate ==
    /\ gen.pc = "generate"
    /\ LET call == Generate(Globals, gen.formatted_prompt, gen.request)
       IN  gen' = IF Raises("generate")
                  THEN Raise(Called(call), "generate raised")
                  ELSE [gen EXCEPT !.pc = "clean", !.calls = Called(call),
                                   !.response = gen.env.raw]
    /\ GenFrame

\* server.py:209-237
gen_clean ==
    /\ gen.pc = "clean"
    /\ gen' = [gen EXCEPT !.pc = "count", !.response = CleanResponse(gen.response)]
    /\ GenFrame

\* server.py:242
gen_count ==
    /\ gen.pc = "count"
    /\ LET text == CountedText(gen.env.raw, gen.response)
       IN  gen' = IF ~Truthy(text)
                  THEN [gen EXCEPT !.pc = "return", !.tokens_generated = 0]
                  ELSE IF Raises("tokenizer.encode")
                  THEN Raise(Called(TokenizerEncode(text)), "tokenizer.encode raised")
                  ELSE [gen EXCEPT !.pc = "return",
                                   !.calls = Called(TokenizerEncode(text)),
                                   !.tokens_generated = Len(Encode(tokenizer, text))]
    /\ GenFrame

\* server.py:245
gen_return ==
    /\ gen.pc = "return"
    /\ gen' = [gen EXCEPT !.pc = "done",
                          !.out = OK(GenerateResponse(gen.response,
                                                      gen.tokens_generated))]
    /\ GenFrame

\* server.py:247-249
gen_except ==
    /\ gen.pc = "except"
    /\ gen' = [gen EXCEPT !.pc = "done", !.out = GenerationFailed(gen.cause)]
    /\ GenFrame

\* The response has been sent.
gen_done ==
    /\ gen.pc = "done"
    /\ gen' = [pc |-> "idle"]
    /\ GenFrame

\* The handlers that change the slot run between generate_text calls.
gen_load_model ==
    /\ gen.pc = "idle"
    /\ load_model
    /\ UNCHANGED gen

NextGenerate ==
    \/ gen_request
    \/ gen_check
    \/ gen_apply_chat_template
    \/ gen_except_TypeError
    \/ gen_make_sampler
    \/ gen_make_logits_processors
    \/ gen_generate
    \/ gen_clean
    \/ gen_count
    \/ gen_return
    \/ gen_except
    \/ gen_done
    \/ gen_load_model

SpecGenerate == InitClean /\ [][NextGenerate]_vars

\* The statements agree with the handler body: the same response, and the same
\* external calls in the same order.
CallName(call) ==
    IF call.fn = "apply_chat_template" /\ call.enable_thinking = "False"
    THEN "apply_chat_template(enable_thinking=False)"
    ELSE call.fn

GenAgreesWithHandler ==
    gen.pc = "done"
        => LET r == generate_text_body(Globals, gen.env)
           IN  /\ gen.out = r.resp
               /\ [k \in DOMAIN gen.calls |-> CallName(gen.calls[k])] = r.steps

----------------------------------------------------------------------------
(* Properties of a generate_text call.                                     *)

\* The calls of generate() made so far in this generate_text call.
DecodeCalls ==
    IF gen.pc = "idle"
    THEN {}
    ELSE {gen.calls[k] : k \in {i \in DOMAIN gen.calls : gen.calls[i].fn = "generate"}}

\* C26: the sampler of every decode has the temperature, top_p and min_p the
\* caller supplied, a fixed default only for one the caller omitted, and keeps at
\* least one token; the logits processors of every decode are the fixed repetition
\* penalty with its lookback window.
C26_SamplingBuiltFromRequest ==
    \A call \in DecodeCalls :
        /\ call.sampler.temp = IF gen.body.temperature = Omitted
                               THEN DefaultTemperature ELSE gen.body.temperature[1]
        /\ call.sampler.min_tokens_to_keep >= 1
        /\ call.logits_processors.repetition_penalty = RepetitionPenalty
        /\ call.logits_processors.repetition_context_size = RepetitionContextSize
        /\ call.sampler.top_p = IF gen.body.top_p = Omitted
                                THEN SamplerTopP ELSE gen.body.top_p[1]
        /\ gen.body.min_p # Omitted => call.sampler.min_p = gen.body.min_p

\* C27: the max_tokens given to generate() is the request's when that is not
\* negative, 150 when the request has none, and never the negative sentinel.
C27_SentinelNeverReachesDecoder ==
    \A call \in DecodeCalls :
        /\ gen.body.max_tokens = Omitted => call.max_tokens = DefaultMaxTokens
        /\ gen.body.max_tokens # Omitted /\ gen.body.max_tokens[1] >= 0
               => call.max_tokens = gen.body.max_tokens[1]
        /\ call.max_tokens >= 0

\* The chat formatting calls made so far in this generate_text call, in order.
FormatCalls ==
    IF gen.pc = "idle"
    THEN <<>>
    ELSE SelectSeq(gen.calls, LAMBDA call : call.fn = "apply_chat_template")

\* A formatting call on the prompt as one user turn, with the thinking toggle
\* as given.
SingleUserTurn(toggle) ==
    [fn |-> "apply_chat_template",
     messages |-> <<[role |-> "user", content |-> gen.body.prompt]>>,
     tokenize |-> FALSE, add_generation_prompt |-> TRUE, enable_thinking |-> toggle]

\* C28: the prompt is formatted as a single user turn with thinking switched off;
\* when the tokenizer rejects the switch the formatting is done once more without
\* it, on the same turn, and what the decoder gets is the text of the last
\* formatting; a request whose only trouble is the rejected switch is answered 200.
C28_ThinkingOffThenOneRetry ==
    /\ Len(FormatCalls) <= 2
    /\ Len(FormatCalls) >= 1 => FormatCalls[1] = SingleUserTurn("False")
    /\ Len(FormatCalls) = 2
           => gen.env.template = "TypeError" /\ FormatCalls[2] = SingleUserTurn(Missing)
    /\ Len(FormatCalls) >= 1 /\ gen.env.template = "TypeError"
           /\ gen.pc # "except TypeError"
           => Len(FormatCalls) = 2
    /\ \A call \in DecodeCalls : call.prompt = Formatted(FormatCalls[Len(FormatCalls)])
    /\ gen.pc = "done" /\ Len(FormatCalls) >= 1 /\ gen.env.template = "TypeError"
           /\ gen.env.fallback = "ok" /\ gen.env.fault = "none"
           => gen.out.code = 200

\* A request whose tokenizer rejected the switch has been answered 200 after the
\* second formatting.
C28_Witness_RetriedWithoutToggle ==
    /\ gen.pc = "done"
    /\ gen.env.template = "TypeError"
    /\ Len(FormatCalls) = 2
    /\ FormatCalls[2].enable_thinking = Missing
    /\ gen.out.code = 200

\* The calls of tokenizer.encode made so far in this generate_text call.
EncodeCalls ==
    IF gen.pc = "idle"
    THEN {}
    ELSE {gen.calls[k] :
            k \in {i \in DOMAIN gen.calls : gen.calls[i].fn = "tokenizer.encode"}}

\* C29: in a 200 response the text is the cleaned decoder output and
\* tokens_generated is the length of the tokenizer's encoding of that text, 0 when
\* the text is empty, and never negative; the only text given to the encoder is
\* the cleaned one.
C29_TokensCountedOnCleanedText ==
    gen.pc = "done" /\ gen.out.code = 200
        => LET text == gen.out.body.response
               n == gen.out.body.tokens_generated
           IN  /\ text = CleanResponse(gen.env.raw)
               /\ n = IF text = <<>> THEN 0 ELSE Len(Encode(tokenizer, text))
               /\ n >= 0
               /\ \A call \in EncodeCalls : call.text = text
               /\ text = <<>> => EncodeCalls = {}

\* A 200 response whose text is not the decoder's: the count is of the cleaned
\* text and differs from the count the decoder's text would give.
C29_Witness_CountDiffersFromRaw ==
    /\ gen.pc = "done"
    /\ gen.out.code = 200
    /\ gen.out.body.response # <<>>
    /\ gen.out.body.tokens_generated = Len(Encode(tokenizer, gen.out.body.response))
    /\ gen.out.body.tokens_generated # Len(Encode(tokenizer, gen.env.raw))

----------------------------------------------------------------------------
(* The release a load makes of the model it replaces.                      *)

\* C30: a load that found a model in the slot and went on to mlx_lm.load has, among
\* its calls before that one, the call that clears the Metal cache, as an unload
\* has after its gc.collect.
C30_LoadClearsCacheBeforeAcquiring ==
    /\ req.op = "load"
    /\ pre.model # None
    /\ \E j \in DOMAIN steps : steps[j] = "mlx_lm.load"
    => \E i, j \in DOMAIN steps :
          /\ i < j
          /\ steps[i] = "mx.metal.clear_cache"
          /\ steps[j] = "mlx_lm.load"

----------------------------------------------------------------------------
(* The recorded path and the resident model.                               *)

\* C31: after any sequence of handler calls current_model_path is set exactly
\* when a model is held, and no status response has model_loaded false together
\* with a model_path.
C31_PathRecordedExactlyWhenResident ==
    /\ (current_model_path # NoneStr) <=> (model # None)
    /\ req.op = "status"
           => ~(resp.body.model_loaded = FALSE /\ resp.body.model_path # NoneStr)

----------------------------------------------------------------------------
(* The cleaning of texts the earlier properties leave open.                *)

\* C32: where "Text:" occurs more than once in the text that reaches the loop
\* cutoff and only whitespace comes before its first occurrence, the cleaned text
\* is not empty and is the text up to the second occurrence, trimmed.
C32_LeadingMarkerAfterWhitespaceKept ==
    cleaning.pc = "cleaned" /\ Len(cleaning.trail) = 5
        => LET s == cleaning.trail[3]
               marks == Occurrences(s, TextMarker)
           IN  /\ Cardinality(marks) > 1
               /\ \A i \in 1..SetMin(marks) : s[i] \in Whitespace
               => /\ Response # <<>>
                  /\ Response = Trimmed(s, 1..SetMin(marks \ {SetMin(marks)}))

\* The "Output:" markers of s no character of which lies in a reasoning block.
MarkersOutsideBlocks(s) ==
    {i \in Occurrences(s, OutputMarker) :
        (i + 1)..(i + Len(OutputMarker)) \cap InBlocks(s) = {}}

\* C33: where "Output:" occurs in the raw text outside the reasoning blocks, the
\* cleaned text does not contain "Output:", whether or not text that is not blank
\* follows a marker.
C33_AnswerMarkerNeverLeft ==
    cleaning.pc = "cleaned" /\ Len(cleaning.trail) = 5
        => (MarkersOutsideBlocks(Raw) # {} => Occurrences(Response, OutputMarker) = {})

====
